---------------------------- MODULE Spec2Model ----------------------------
(***************************************************************************)
(* Model of .github/workflows/git_commit_graph.py: the commit collector    *)
(* (get_all_commits_from_date), the two renderers, the summarizer and      *)
(* main().  One action per step of the program; every loop iteration is    *)
(* one step.                                                               *)
(*                                                                         *)
(* Strings that the program splits or joins on '/' are modelled as the     *)
(* sequence of their '/'-separated components: "origin/feature/x" is       *)
(* <<"origin", "feature", "x">>, joining with '/' is \o, and               *)
(* s.split('/') is the sequence itself.                                    *)
(*                                                                         *)
(* Time is counted in days; day 1 is 2024-01-01 and day 0 the day before.  *)
(* Every commit is taken to be made at noon; the run happens either before *)
(* noon (clock_late = FALSE) or after it.                                  *)
(***************************************************************************)
EXTENDS Integers, Sequences, FiniteSets, TLC

VARIABLES
    argv,          \* the command line: [since |-> the --since text]
    repo,          \* the repository at --repo-path (read-only)
    clock_late,    \* the time of day of the run (read by git for a bare date)
    pc,            \* position of the program
    since_date,    \* main's since_date, None before it is parsed
    branches,      \* get_all_commits_from_date's list of branch names
    visited,       \* refs the current enumeration loop has already yielded
    i,             \* index of the collection loop (1-based)
    traversed,     \* the names iter_commits was called with, in order
    warnings,      \* the names a "Could not access branch" warning was printed for
    all_commits,   \* the Branch collection: insertion-ordered dict
    timeline,      \* rows drawn by create_commit_timeline_graph
    graph,         \* the DiGraph of create_commit_network_graph
    summary,       \* the summary record dumped by create_summary_stats
    files,         \* names of the output files written so far
    exit_code      \* Running, then the process's exit status

vars == <<argv, repo, clock_late, pc, since_date, branches, visited, i,
          traversed, warnings, all_commits, timeline, graph, summary, files,
          exit_code>>

None == <<"None">>

(* exit_code while the process runs *)
Running == 0 - 1

----------------------------------------------------------------------------
(* Bounds of the model and the universes of its inputs *)

(* commits of a short history *)
MaxCommits == 2

(* last day of January 2024 a commit is made on *)
MaxDay == 2

(* commits of a long history: more than the cap of the network graph *)
LongLen == 12

(* commits[:10] in create_commit_network_graph *)
NetworkCap == 10

Authors == {"alice", "bob"}

Remote == "origin"

LocalNames == {<<"main">>, <<"origin", "x">>}

(* names of the refs under refs/remotes/origin/ *)
RemoteRefNames == {<<"x">>, <<"feature", "x">>}

TIMELINE_FILE == "commit_timeline.png"

NETWORK_FILE == "commit_network.png"

SUMMARY_FILE == "commit_summary.json"

----------------------------------------------------------------------------
(* Generic helpers *)

Range(s) == {s[k] : k \in DOMAIN s}

Last(s) == s[Len(s)]

Min(a, b) == IF a < b THEN a ELSE b

(* s[:n] *)
Take(s, n) == SubSeq(s, 1, Min(n, Len(s)))

RECURSIVE SumSeq(_)
SumSeq(s) == IF s = <<>> THEN 0 ELSE Head(s) + SumSeq(Tail(s))

(* every listing of the finite set S without repeats: list(set(...)) yields one *)
Listings(S) ==
    {s \in [1..Cardinality(S) -> S] : \A a, b \in DOMAIN s : a # b => s[a] # s[b]}

----------------------------------------------------------------------------
(* The insertion-ordered dict all_commits: a sequence of items *)

Keys(d) == [k \in DOMAIN d |-> d[k].branch]

KeySet(d) == {d[k].branch : k \in DOMAIN d}

Get(d, name) == (CHOOSE k \in DOMAIN d : d[k].branch = name)

Commits(d, name) == d[Get(d, name)].commits

(* d[name] = commits *)
DictSet(d, name, commits) ==
    IF name \in KeySet(d)
    THEN [d EXCEPT ![Get(d, name)].commits = commits]
    ELSE Append(d, [branch |-> name, commits |-> commits])

----------------------------------------------------------------------------
(* Dates *)

IsLeap(y) == (y % 4 = 0 /\ y % 100 # 0) \/ y % 400 = 0

DaysInMonth(y, m) ==
    IF m = 2 THEN (IF IsLeap(y) THEN 29 ELSE 28)
    ELSE IF m \in {4, 6, 9, 11} THEN 30 ELSE 31

(* a strptime that takes any day up to 31 in every month *)
strptimeAnyDay(text) ==
    IF Len(text) = 3 /\ text[2] \in 1..12 /\ text[3] \in 1..31
    THEN [ok |-> TRUE, date |-> [year |-> text[1], month |-> text[2], day |-> text[3]]]
    ELSE [ok |-> FALSE, date |-> None]

(* datetime.strptime(text, '%Y-%m-%d'): the text split on '-' must be a    *)
(* year, a month and a day of that month; anything else is a ValueError.   *)
strptime(text) ==
    IF /\ Len(text) = 3
       /\ text[1] \in 1..9999
       /\ text[2] \in 1..12
       /\ text[3] \in 1..DaysInMonth(text[1], text[2])
    THEN [ok |-> TRUE, date |-> [year |-> text[1], month |-> text[2], day |-> text[3]]]
    ELSE [ok |-> FALSE, date |-> None]

(* since_date.strftime('%Y-%m-%d') *)
strftime(date) == <<date.year, date.month, date.day>>

RECURSIVE DaysBeforeMonth(_, _)
DaysBeforeMonth(y, m) ==
    IF m = 1 THEN 0 ELSE DaysBeforeMonth(y, m - 1) + DaysInMonth(y, m - 1)

(* the day number git reads a YYYY-MM-DD text as (years of the model: 2024) *)
DayNumber(text) == DaysBeforeMonth(text[1], text[2]) + text[3]

----------------------------------------------------------------------------
(* The repository and git *)

Parent(c) == c - 1

NoRef == 0 - 1

(* git's resolution of a revision name: refs/heads/<name> first, then      *)
(* refs/remotes/<name>; NoRef when neither exists.                         *)
Resolve(name) ==
    IF name \in DOMAIN repo.heads THEN repo.heads[name]
    ELSE IF /\ Len(name) >= 2
            /\ name[1] = Remote
            /\ Tail(name) \in DOMAIN repo.remote_refs
         THEN repo.remote_refs[Tail(name)]
         ELSE NoRef

(* git rev-list --since=<text>: a bare date is read at the current time of *)
(* day, and a commit is older when its committer date is before that.      *)
Older(c, text) ==
    \/ repo.committed[c] < DayNumber(text)
    \/ repo.committed[c] = DayNumber(text) /\ clock_late

(* The walk from a commit through its parents; it stops at the first       *)
(* commit older than the cutoff.                                           *)
RECURSIVE RevList(_, _)
RevList(c, text) ==
    IF c = 0 \/ Older(c, text) THEN <<>>
    ELSE <<c>> \o RevList(Parent(c), text)

(* list(repo.iter_commits(branch_name, since=text)): GitCommandError when  *)
(* the name resolves to no ref or the ref's object is missing (tip 0).     *)
iter_commits(branch_name, text) ==
    IF Resolve(branch_name) \in 1..repo.n
    THEN [ok |-> TRUE, commits |-> RevList(Resolve(branch_name), text)]
    ELSE [ok |-> FALSE, commits |-> <<>>]

----------------------------------------------------------------------------
(* Inputs: command lines, repositories, clocks *)

(* --since texts, split on '-': days of January 2024, a day after every    *)
(* commit, and texts strptime rejects                                      *)
SinceArgs ==
    {<<2024, 1, d>> : d \in 1..MaxDay}
        \cup {<<2024, 2, 1>>, <<2024, 2, 30>>, <<2024, 13, 1>>, <<2024, 1>>}

ValidSinceArgs == {t \in SinceArgs : strptime(t).ok}

(* partial functions from S to T *)
PartialFns(S, T) == UNION {[D -> T] : D \in SUBSET S}

(* hexsha as <<its first 8 characters, the other 32>> *)
Sha(prefix, c) == <<ToString(prefix), ToString(c)>>

(* a linear history of n commits, commit 1 the root: committer dates never *)
(* decrease towards the tip, a commit is authored on the day it is         *)
(* committed or (rebased, amended) the day before                          *)
Histories(n) ==
    {[n |-> n, committed |-> cd, authored |-> ad, author |-> au,
      hexsha |-> [c \in 1..n |-> Sha(c, c)]] :
        cd \in {s \in [1..n -> 1..MaxDay] : \A k \in 1..(n - 1) : s[k] <= s[k + 1]},
        ad \in [1..n -> 0..MaxDay],
        au \in [1..n -> Authors]}

HistoryOk(h) == \A c \in 1..h.n : h.authored[c] \in {h.committed[c] - 1, h.committed[c]}

(* one commit a day until MaxDay, authors taking turns; collide makes the  *)
(* abbreviated hashes of commits 1 and 2 equal                             *)
PlainHistory(n, collide) ==
    [n |-> n,
     committed |-> [c \in 1..n |-> Min(c, MaxDay)],
     authored |-> [c \in 1..n |-> Min(c, MaxDay)],
     author |-> [c \in 1..n |-> IF c % 2 = 1 THEN "alice" ELSE "bob"],
     hexsha |-> [c \in 1..n |-> Sha(IF collide /\ c = 2 THEN 1 ELSE c, c)]]

MkRepo(status, h, heads, remote_refs) ==
    [status |-> status, n |-> h.n, committed |-> h.committed,
     authored |-> h.authored, author |-> h.author, hexsha |-> h.hexsha,
     heads |-> heads, remote_refs |-> remote_refs]

(* every history, under main and origin/x *)
HistRepos ==
    {MkRepo("valid", h, (<<"main">> :> MaxCommits), (<<"x">> :> t)) :
        h \in {g \in Histories(MaxCommits) : HistoryOk(g)}, t \in 1..MaxCommits}

(* every layout of refs over a plain history; tip 0 is a ref whose object  *)
(* is missing                                                              *)
RefRepos ==
    {MkRepo("valid", PlainHistory(MaxCommits, FALSE), hs, rs) :
        hs \in PartialFns(LocalNames, 0..MaxCommits),
        rs \in PartialFns(RemoteRefNames, 0..MaxCommits)}

(* paths that hold no repository *)
BadRepos ==
    {MkRepo(st, PlainHistory(0, FALSE), <<>>, <<>>) : st \in {"not_a_repo", "no_such_path"}}

(* long histories, for the cap of the network graph *)
LongRepos ==
    {MkRepo("valid", PlainHistory(LongLen, col), (<<"main">> :> t1), rs) :
        col \in BOOLEAN, t1 \in {NetworkCap, LongLen},
        rs \in PartialFns({<<"x">>}, 1..LongLen)}

Configs ==
    {[since |-> t, repo |-> r, late |-> l] :
        t \in ValidSinceArgs, r \in HistRepos, l \in BOOLEAN}
    \cup {[since |-> t, repo |-> r, late |-> FALSE] :
        t \in SinceArgs, r \in RefRepos \cup BadRepos}
    \cup {[since |-> <<2024, 1, 1>>, repo |-> r, late |-> FALSE] : r \in LongRepos}

----------------------------------------------------------------------------
(* The state after the interpreter has started main() *)

EmptyGraph == [nodes |-> <<>>, edges |-> {}]

EmptySummary == [total_branches |-> 0, total_commits |-> 0, branch_stats |-> <<>>]

Init ==
    /\ \E cfg \in Configs :
        /\ argv = [since |-> cfg.since]
        /\ repo = cfg.repo
        /\ clock_late = cfg.late
    /\ pc = "main"
    /\ since_date = None
    /\ branches = <<>>
    /\ visited = {}
    /\ i = 1
    /\ traversed = <<>>
    /\ warnings = {}
    /\ all_commits = <<>>
    /\ timeline = <<>>
    /\ graph = EmptyGraph
    /\ summary = EmptySummary
    /\ files = {}
    /\ exit_code = Running

(* sys.exit(code), a return from main, or an exception nobody catches *)
Exit(code) == pc' = "exit" /\ exit_code' = code

----------------------------------------------------------------------------
(* main(), lines 254-262: parse --since *)
ParseSince ==
    /\ pc = "main"
    /\ IF strptime(argv.since).ok
       THEN /\ since_date' = strptime(argv.since).date
            /\ pc' = "open_repo"
            /\ UNCHANGED exit_code
       ELSE /\ Exit(1)
            /\ UNCHANGED since_date
    /\ UNCHANGED <<argv, repo, clock_late, branches, visited, i, traversed,
                   warnings, all_commits, timeline, graph, summary, files>>

(* get_all_commits_from_date, lines 37-46: git.Repo(repo_path).  A path    *)
(* that is no repository raises InvalidGitRepositoryError (caught, exit    *)
(* 1); a path that does not exist raises NoSuchPathError, which nothing    *)
(* catches: the interpreter prints the traceback and exits 1.              *)
OpenRepo ==
    /\ pc = "open_repo"
    /\ IF repo.status = "valid"
       THEN /\ pc' = "enum_local"
            /\ all_commits' = <<>>
            /\ branches' = <<>>
            /\ visited' = {}
            /\ UNCHANGED exit_code
       ELSE /\ Exit(1)
            /\ UNCHANGED <<all_commits, branches, visited>>
    /\ UNCHANGED <<argv, repo, clock_late, since_date, i, traversed, warnings,
                   timeline, graph, summary, files>>

(* lines 49-50: one iteration of the loop over repo.branches, or its end *)
AddLocalBranch ==
    /\ pc = "enum_local"
    /\ IF DOMAIN repo.heads \subseteq visited
       THEN /\ pc' = "enum_remote"
            /\ visited' = {}
            /\ UNCHANGED branches
       ELSE \E name \in DOMAIN repo.heads \ visited :
            /\ branches' = Append(branches, name)
            /\ visited' = visited \cup {name}
            /\ UNCHANGED pc
    /\ UNCHANGED <<argv, repo, clock_late, since_date, i, traversed, warnings,
                   all_commits, timeline, graph, summary, files, exit_code>>

(* line 55: f"{remote.name}/{ref.name.split('/')[-1]}", where ref.name is  *)
(* the remote's name, '/', and the ref's name under the remote             *)
RemoteBranchName(ref) == <<Remote, Last(<<Remote>> \o ref)>>

(* lines 53-59: one iteration of the loop over remote.refs, or its end *)
AddRemoteBranch ==
    /\ pc = "enum_remote"
    /\ IF DOMAIN repo.remote_refs \subseteq visited
       THEN /\ pc' = "collect"
            /\ i' = 1
            /\ visited' = {}
            /\ UNCHANGED branches
       ELSE \E ref \in DOMAIN repo.remote_refs \ visited :
            /\ branches' = IF RemoteBranchName(ref) \in Range(branches)
                           THEN branches
                           ELSE Append(branches, RemoteBranchName(ref))
            /\ visited' = visited \cup {ref}
            /\ UNCHANGED <<pc, i>>
    /\ UNCHANGED <<argv, repo, clock_late, since_date, traversed, warnings,
                   all_commits, timeline, graph, summary, files, exit_code>>

(* Record without its test of the list: every traversed branch is kept *)
RecordAlways(d, name, commits) == DictSet(d, name, commits)

(* lines 70-72: keep a branch only when its list of commits is not empty *)
Record(d, name, commits) == IF commits # <<>> THEN DictSet(d, name, commits) ELSE d

(* a failure that ends the loop instead of going on with the next branch *)
Break(idx) == Len(branches) + 1

(* lines 74-76: the warning, then continue *)
Continue(idx) == idx + 1

(* lines 62-78: one iteration of the loop over branches, or the return *)
CollectBranch ==
    /\ pc = "collect"
    /\ IF i > Len(branches)
       THEN /\ pc' = "check_empty"
            /\ UNCHANGED <<i, traversed, warnings, all_commits>>
       ELSE LET name == branches[i]
                got == iter_commits(name, strftime(since_date))
            IN /\ traversed' = Append(traversed, name)
               /\ IF got.ok
                  THEN /\ all_commits' = Record(all_commits, name, got.commits)
                       /\ UNCHANGED warnings
                  ELSE /\ warnings' = warnings \cup {name}
                       /\ UNCHANGED all_commits
               /\ i' = IF got.ok THEN i + 1 ELSE Continue(i)
               /\ UNCHANGED pc
    /\ UNCHANGED <<argv, repo, clock_late, since_date, branches, visited,
                   timeline, graph, summary, files, exit_code>>

(* main without its early return *)
NeverNothing(d) == FALSE

(* line 267: not all_commits *)
NothingFound(d) == d = <<>>

(* main(), lines 265-275: back from the collector *)
CheckEmpty ==
    /\ pc = "check_empty"
    /\ IF NothingFound(all_commits)
       THEN Exit(0)
       ELSE pc' = "timeline" /\ UNCHANGED exit_code
    /\ UNCHANGED <<argv, repo, clock_late, since_date, branches, visited, i,
                   traversed, warnings, all_commits, timeline, graph, summary,
                   files>>

----------------------------------------------------------------------------
(* create_commit_timeline_graph *)

(* lines 100-114: one row per item: its y position, the authored dates of  *)
(* its commits and the annotation with their number                        *)
TimelineRows(d) ==
    [k \in DOMAIN d |->
        [y |-> k - 1,
         label |-> d[k].branch,
         dates |-> [j \in DOMAIN d[k].commits |-> repo.authored[d[k].commits[j]]],
         annotation |-> Len(d[k].commits)]]

(* lines 89-135 *)
Timeline ==
    /\ pc = "timeline"
    /\ IF all_commits = <<>>
       THEN UNCHANGED <<timeline, files>>
       ELSE /\ timeline' = TimelineRows(all_commits)
            /\ files' = files \cup {TIMELINE_FILE}
    /\ pc' = "network"
    /\ UNCHANGED <<argv, repo, clock_late, since_date, branches, visited, i,
                   traversed, warnings, all_commits, graph, summary, exit_code>>

----------------------------------------------------------------------------
(* create_commit_network_graph *)

(* commit.hexsha[:8], a node name with no '/' *)
CommitId(c) == <<repo.hexsha[c][1]>>

(* G.add_node(n, **attrs): a new node, or new values for an old node's attributes *)
add_node(G, n, attrs) ==
    [G EXCEPT !.nodes =
        (n :> (IF n \in DOMAIN G.nodes THEN attrs @@ G.nodes[n] ELSE attrs)) @@ G.nodes]

(* G.add_edge(u, v) between two nodes of G *)
add_edge(G, u, v) == [G EXCEPT !.edges = G.edges \cup {<<u, v>>}]

(* the loop over all the commits of a branch *)
Uncapped(commits) == commits

(* line 159: commits[:10] *)
Capped(commits) == Take(commits, NetworkCap)

(* lines 159-166: the loop over the capped commits of one branch *)
RECURSIVE AddCommitNodes(_, _, _)
AddCommitNodes(G, branch, commits) ==
    IF commits = <<>> THEN G
    ELSE AddCommitNodes(
            add_edge(add_node(G, CommitId(Head(commits)),
                              [node_type |-> "commit",
                               author |-> repo.author[Head(commits)],
                               date |-> repo.authored[Head(commits)]]),
                     branch, CommitId(Head(commits))),
            branch, Tail(commits))

(* lines 154-166: the loop over the items *)
RECURSIVE AddBranchNodes(_, _)
AddBranchNodes(G, d) ==
    IF d = <<>> THEN G
    ELSE AddBranchNodes(
            AddCommitNodes(add_node(G, Head(d).branch,
                                    [node_type |-> "branch",
                                     commit_count |-> Len(Head(d).commits)]),
                           Head(d).branch, Capped(Head(d).commits)),
            Tail(d))

(* lines 146-195 *)
Network ==
    /\ pc = "network"
    /\ IF all_commits = <<>>
       THEN UNCHANGED <<graph, files>>
       ELSE /\ graph' = AddBranchNodes(EmptyGraph, all_commits)
            /\ files' = files \cup {NETWORK_FILE}
    /\ pc' = "summary"
    /\ UNCHANGED <<argv, repo, clock_late, since_date, branches, visited, i,
                   traversed, warnings, all_commits, timeline, summary,
                   exit_code>>

----------------------------------------------------------------------------
(* create_summary_stats *)

(* the number of distinct commits, a commit of two branches counted once *)
TotalDistinctCommits(d) == Cardinality(UNION {Range(d[k].commits) : k \in DOMAIN d})

(* line 208: sum(len(commits) for commits in all_commits.values()) *)
TotalCommits(d) == SumSeq([k \in DOMAIN d |-> Len(d[k].commits)])

(* the authors of every branch of the collection *)
AuthorNamesOfAll(d, commits) == UNION {{repo.author[c] : c \in Range(d[k].commits)} : k \in DOMAIN d}

(* line 214: set(commit.author.name for commit in commits) *)
AuthorNames(d, commits) == {repo.author[c] : c \in Range(commits)}

(* line 219: commits[0].authored_date *)
LatestCommit(commits) == repo.authored[commits[1]]

(* line 220: commits[-1].authored_date *)
OldestCommit(commits) == repo.authored[Last(commits)]

(* lines 214-221: the records one branch can get, one per order in which   *)
(* list(set(...)) lists the authors                                        *)
BranchStats(d, commits) ==
    {[commit_count |-> Len(commits),
      unique_authors |-> Len(authors),
      authors |-> authors,
      latest_commit |-> LatestCommit(commits),
      oldest_commit |-> OldestCommit(commits)] :
        authors \in Listings(AuthorNames(d, commits))}

(* line 213: if commits *)
StatKeys(d) == {d[k].branch : k \in {j \in DOMAIN d : d[j].commits # <<>>}}

(* lines 206-221 *)
Summaries(d) ==
    {[total_branches |-> Len(d),
      total_commits |-> TotalCommits(d),
      branch_stats |-> bs] :
        bs \in {f \in [StatKeys(d) -> UNION {BranchStats(d, Commits(d, b)) : b \in StatKeys(d)}] :
                    \A b \in StatKeys(d) : f[b] \in BranchStats(d, Commits(d, b))}}

(* lines 206-226, then main's lines 281-284 and its return *)
Summary ==
    /\ pc = "summary"
    /\ summary' \in Summaries(all_commits)
    /\ files' = files \cup {SUMMARY_FILE}
    /\ Exit(0)
    /\ UNCHANGED <<argv, repo, clock_late, since_date, branches, visited, i,
                   traversed, warnings, all_commits, timeline, graph>>

----------------------------------------------------------------------------

Next ==
    \/ ParseSince
    \/ OpenRepo
    \/ AddLocalBranch
    \/ AddRemoteBranch
    \/ CollectBranch
    \/ CheckEmpty
    \/ Timeline
    \/ Network
    \/ Summary

Spec == Init /\ [][Next]_vars

----------------------------------------------------------------------------
(* Vocabulary of the properties *)

(* the cutoff text handed to git, once --since is parsed *)
Cutoff == strftime(since_date)

Collected == pc \in {"check_empty", "timeline", "network", "summary"}
                 \/ (pc = "exit" /\ strptime(argv.since).ok /\ repo.status = "valid")

Enumerated == pc = "collect" \/ Collected

SummaryWritten == SUMMARY_FILE \in files

Items == DOMAIN all_commits

SetMax(S) == CHOOSE x \in S : \A y \in S : y <= x

SetMin(S) == CHOOSE x \in S : \A y \in S : x <= y

NoRepeats(s) == \A a, b \in DOMAIN s : a # b => s[a] # s[b]

(* a calendar date written as year, month, day *)
IsCalendarDate(text) ==
    /\ Len(text) = 3
    /\ text[2] \in 1..12
    /\ text[3] \in 1..(IF text[2] = 2 THEN (IF text[1] % 4 = 0 THEN 29 ELSE 28)
                       ELSE IF text[2] \in {4, 6, 9, 11} THEN 30 ELSE 31)

RECURSIVE SumCounts(_, _)
SumCounts(bs, S) ==
    IF S = {} THEN 0
    ELSE LET b == CHOOSE x \in S : TRUE
         IN bs[b].commit_count + SumCounts(bs, S \ {b})

(* the collection built from a list of names none of which fails *)
RECURSIVE CollectionOf(_)
CollectionOf(names) ==
    IF names = <<>> THEN <<>>
    ELSE LET got == iter_commits(Last(names), Cutoff)
             prev == CollectionOf(SubSeq(names, 1, Len(names) - 1))
         IN IF got.commits = <<>> THEN prev
            ELSE Append(prev, [branch |-> Last(names), commits |-> got.commits])

Fails(name) == ~iter_commits(name, Cutoff).ok

WithoutFailing(names) == SelectSeq(names, LAMBDA b : ~Fails(b))

----------------------------------------------------------------------------
(* C1: every commit recorded under a branch is authored on or after the    *)
(* cutoff day.                                                             *)
C1_AuthoredOnOrAfterCutoff ==
    \A k \in Items : \A c \in Range(all_commits[k].commits) :
        repo.authored[c] >= DayNumber(Cutoff)

(* C2: every key of the collection maps to a non-empty list; a traversed   *)
(* branch that yielded no commit is no key of the collection; once the     *)
(* collector has returned the keys are the branches that yielded commits,  *)
(* through every later stage; branch_stats has no other key.               *)
C2_NoEmptyBranch ==
    /\ \A k \in Items : all_commits[k].commits # <<>>
    /\ \A j \in DOMAIN traversed :
           iter_commits(traversed[j], Cutoff).commits = <<>>
               => traversed[j] \notin KeySet(all_commits)
    /\ Collected =>
           KeySet(all_commits) =
               {b \in Range(branches) : iter_commits(b, Cutoff).commits # <<>>}
    /\ DOMAIN summary.branch_stats \subseteq KeySet(all_commits)
    /\ \A b \in DOMAIN summary.branch_stats :
           iter_commits(b, Cutoff).commits # <<>>

(* a run that wrote the summary although a traversed branch had no commit *)
C2_Witness ==
    /\ SummaryWritten
    /\ \E j \in DOMAIN traversed :
           /\ iter_commits(traversed[j], Cutoff).ok
           /\ iter_commits(traversed[j], Cutoff).commits = <<>>

(* C3: total_commits is the sum of the commit_count entries, a commit in   *)
(* the lists of k branches counting k times, and total_branches is the     *)
(* number of branch_stats entries.                                         *)
C3_TotalsAreSums ==
    SummaryWritten =>
        /\ summary.total_commits =
               SumCounts(summary.branch_stats, DOMAIN summary.branch_stats)
        /\ summary.total_commits =
               SumSeq([c \in 1..repo.n |->
                   Cardinality({k \in Items : c \in Range(all_commits[k].commits)})])
        /\ summary.total_branches = Cardinality(DOMAIN summary.branch_stats)

(* a summary over two branches that share a commit *)
C3_Witness ==
    /\ SummaryWritten
    /\ \E k1, k2 \in Items :
           /\ k1 # k2
           /\ Range(all_commits[k1].commits) \cap Range(all_commits[k2].commits) # {}

(* C4: unique_authors is the number of distinct authors of the branch's    *)
(* own commits and authors lists exactly them, each once.                  *)
C4_AuthorsOfTheBranch ==
    SummaryWritten =>
        \A b \in DOMAIN summary.branch_stats :
            LET own == {repo.author[c] : c \in Range(Commits(all_commits, b))}
                st == summary.branch_stats[b]
            IN /\ st.unique_authors = Cardinality(own)
               /\ Range(st.authors) = own
               /\ NoRepeats(st.authors)

(* a summary where an author of one branch has no commit in another *)
C4_Witness ==
    /\ SummaryWritten
    /\ \E b1, b2 \in DOMAIN summary.branch_stats :
           Range(summary.branch_stats[b1].authors)
               \ Range(summary.branch_stats[b2].authors) # {}

C6_NothingFound ==
    (Collected /\ all_commits = <<>>) =>
        /\ files = {}
        /\ timeline = <<>> /\ graph = EmptyGraph /\ summary = EmptySummary
        /\ pc \in {"check_empty", "exit"}
        /\ pc = "exit" => exit_code = 0

(* a finished run over branches none of which has a commit since the cutoff *)
C6_Witness ==
    /\ pc = "exit"
    /\ exit_code = 0
    /\ all_commits = <<>>
    /\ \E j \in DOMAIN traversed : iter_commits(traversed[j], Cutoff).ok

(* C7: with a --since that is no calendar date, or a --repo-path that      *)
(* holds no repository, no branch is traversed, no file is written and the *)
(* process exits 1.                                                        *)
C7_FatalBeforeCollection ==
    (~IsCalendarDate(argv.since) \/ repo.status # "valid") =>
        /\ traversed = <<>>
        /\ files = {}
        /\ pc \in {"main", "open_repo", "exit"}
        /\ pc = "exit" => exit_code = 1

(* a run with a good date that ended on a path that holds no repository *)
C7_Witness ==
    /\ pc = "exit"
    /\ exit_code = 1
    /\ IsCalendarDate(argv.since)
    /\ repo.status = "not_a_repo"

(* C8: once the collector has returned, every enumerated branch has been   *)
(* traversed, the failing ones are no keys, the collection is the one the  *)
(* list without the failing branches gives, and the run ends with 0.       *)
C8_FailureIsolated ==
    Collected =>
        /\ traversed = branches
        /\ warnings = {b \in Range(branches) : Fails(b)}
        /\ warnings \cap KeySet(all_commits) = {}
        /\ all_commits = CollectionOf(WithoutFailing(branches))
        /\ pc = "exit" => exit_code = 0

(* a collection that holds a branch enumerated after one that failed *)
C8_Witness ==
    /\ Collected
    /\ \E j, k \in DOMAIN traversed :
           /\ j < k
           /\ traversed[j] \in warnings
           /\ traversed[k] \in KeySet(all_commits)

(* C9: latest_commit is the newest and oldest_commit the oldest authored   *)
(* date among the branch's listed commits.                                 *)
C9_NewestAndOldest ==
    SummaryWritten =>
        \A b \in DOMAIN summary.branch_stats :
            LET dates == {repo.authored[c] : c \in Range(Commits(all_commits, b))}
            IN /\ summary.branch_stats[b].latest_commit = SetMax(dates)
               /\ summary.branch_stats[b].oldest_commit = SetMin(dates)

(* C10: the enumerated list holds the local branches, then for every       *)
(* remote ref the name <remote>/<its name under the remote>, no name       *)
(* twice, and no two refs of the remote under the same name.               *)
C10_EnumeratedNames ==
    Enumerated =>
        /\ NoRepeats(branches)
        /\ Range(branches) =
               DOMAIN repo.heads \cup {<<Remote>> \o ref : ref \in DOMAIN repo.remote_refs}
        /\ \A k \in DOMAIN branches :
               k <= Cardinality(DOMAIN repo.heads) <=> branches[k] \in DOMAIN repo.heads
        /\ \A r1, r2 \in DOMAIN repo.remote_refs :
               r1 # r2 => RemoteBranchName(r1) # RemoteBranchName(r2)

=============================================================================
